---- MODULE Spec2Model ----
(***************************************************************************)
(* Model of the scheduled top-score announcer (src/src/index.ts).          *)
(*                                                                         *)
(* A run of `scheduled` is split at the points where it awaits shared      *)
(* state: the token lookup, the cursor read, the joint fetch, the          *)
(* processing that ends with the cursor put, and the detached              *)
(* announcement task.  The remote score history, the key-value store and   *)
(* the webhook are the environment.                                        *)
(***************************************************************************)
EXTENDS Integers, Sequences, FiniteSets, TLC

(***************************************************************************)
(* Bounds of the model.                                                    *)
(***************************************************************************)
MaxHist == 3            \* scores the remote history may hold
RecentLimit == 2        \* window of the recent-scores request (limit=50)
BestLimit == 2          \* window of the best-scores request (limit=100)
MaxPP == 2              \* performance values are 1..MaxPP
NumRuns == 2            \* invocation slots (only slot 1 runs when serialized)
TimerBody == 90         \* the integer the timer endpoint answers with

(***************************************************************************)
(* Encodings of JavaScript values that have no integer counterpart.        *)
(***************************************************************************)
NullPP == -1            \* pp: null
NoTimer == -1           \* let timer_value = -1
NaN == -2               \* parseInt of a body that holds no integer

PPValues == 1..MaxPP
Timestamps == 1..MaxHist
Runs == 1..NumRuns

VARIABLES
    history,            \* remote: pp of every score, oldest first; ended_at = index
    kv_token,           \* LATEST_SCORE['osu_v2_token']
    kv_last_seen,       \* LATEST_SCORE['last_seen']
    timer_configured,   \* env.FARMATHON_TIMER_LINKSHARE != null
    pc,                 \* position of each invocation
    osu_v2_token,       \* per run: result of get_osu_v2_token
    last_seen_score,    \* per run: parsed cursor
    resp,               \* per run: the responses Promise.all resolved to
    recent_scores,      \* per run
    best_scores,        \* per run
    timer_value,        \* per run
    new_scores,         \* per run
    posts,              \* per run: webhook POSTs issued, in order
    outcome,            \* per run: how the run ended
    wrote,              \* per run: did the run put 'last_seen'
    cursor_at_start,    \* per run: 'last_seen' as the run read it
    exchanged,          \* per run: the exchange get_osu_v2_token issued, if any
    token_at_start,     \* per run: 'osu_v2_token' when the run started
    same_fetch,         \* per run: both lists fetched equal the previous run's
    announcedIn,        \* history: number of runs that POSTed each score
    newRecords,         \* history: scores some run saw as a new record
    prev_fetch,         \* history: the lists the previous run fetched, until the next fetch
    deferred,           \* history: scores some run skipped for rank 0
    newest_seen,        \* history: newest recent[0] a run took to the cursor update
    overlapped,         \* history: two invocations have been active at once
    cut_delivering      \* history: the score a cut-off run was delivering, 0 if none

vars == <<history, kv_token, kv_last_seen, timer_configured, pc, osu_v2_token,
          last_seen_score, resp, recent_scores, best_scores, timer_value,
          new_scores, posts, outcome, wrote, cursor_at_start, exchanged,
          token_at_start, same_fetch, announcedIn, newRecords, prev_fetch,
          deferred, newest_seen, overlapped, cut_delivering>>

(***************************************************************************)
(* Values of the key-value store and of the parsed cursor.                 *)
(***************************************************************************)
KVNull == [kind |-> "null"]
KVCorrupt == [kind |-> "corrupt"]
NoToken == "null"
Token == "access_token"

\* NewUserScore, reduced to the fields the pipeline reads
ApiScore(t, p) == [ended_at |-> t, pp |-> p]

\* score_from_api followed by JSON.stringify: the stored cursor
score_from_api(api_score) ==
    [kind |-> "json", created_at |-> api_score.ended_at, pp |-> api_score.pp]

\* JSON.parse inside try/catch: a value that does not parse leaves null
ParseLastSeen(str) ==
    IF str.kind = "json" THEN str ELSE KVNull

\* last_seen_score?.created_at != null
HasCreatedAt(score) == score.kind = "json"


(***************************************************************************)
(* Array helpers, computed as the JavaScript built-ins compute them.       *)
(* Indices returned are 0-based, as in the source.                         *)
(***************************************************************************)
RECURSIVE InsertDesc(_, _)
InsertDesc(v, sorted) ==
    IF sorted = <<>> THEN <<v>>
    ELSE IF v > Head(sorted) THEN <<v>> \o sorted
    ELSE <<Head(sorted)>> \o InsertDesc(v, Tail(sorted))

\* Array.prototype.sort((a, b) => b - a)
RECURSIVE SortDesc(_)
SortDesc(values) ==
    IF values = <<>> THEN <<>>
    ELSE InsertDesc(Head(values), SortDesc(Tail(values)))

\* Array.prototype.indexOf: first position holding v, -1 when there is none
indexOf(values, v) ==
    IF \E i \in 1..Len(values) : values[i] = v
    THEN (CHOOSE i \in 1..Len(values) :
             values[i] = v /\ \A j \in 1..(i - 1) : values[j] # v) - 1
    ELSE -1

\* recent_scores.findIndex(score => score.ended_at == created_at)
findIndex(scores, created_at) ==
    IF \E i \in 1..Len(scores) : scores[i].ended_at = created_at
    THEN (CHOOSE i \in 1..Len(scores) :
             /\ scores[i].ended_at = created_at
             /\ \A j \in 1..(i - 1) : scores[j].ended_at # created_at) - 1
    ELSE -1

(***************************************************************************)
(* get_osu_v2_token: the cache lookup, the credential exchange and the     *)
(* cache put.  exchange_resp is what the token endpoint answers: a token   *)
(* with status 200, or a failure status with a JSON body or with a body    *)
(* that is not JSON.  The body is parsed before the status is looked at,   *)
(* so the last one makes resp.json() throw.                                *)
(***************************************************************************)
ExchangeResponses == {"ok", "error_json", "error_text"}

\* the call did not return: resp.json() rejected
Thrown == "SyntaxError"

\* variant: the status of the exchange response is not looked at
get_osu_v2_token_NoStatusCheck(cache, renew, exchange_resp) ==
    IF ~renew /\ cache # NoToken
    THEN [ret |-> cache, cache |-> cache, exchange |-> "none"]
    ELSE IF exchange_resp = "error_text"
    THEN [ret |-> Thrown, cache |-> cache, exchange |-> "failed"]
    ELSE [ret |-> Token, cache |-> Token,
          exchange |-> IF exchange_resp = "ok" THEN "ok" ELSE "failed"]

get_osu_v2_token(cache, renew, exchange_resp) ==
    IF ~renew /\ cache # NoToken
    THEN [ret |-> cache, cache |-> cache, exchange |-> "none"]
    ELSE IF exchange_resp = "error_text"
    THEN [ret |-> Thrown, cache |-> cache, exchange |-> "failed"]
    ELSE IF exchange_resp = "error_json"
    THEN [ret |-> NoToken, cache |-> cache, exchange |-> "failed"]
    ELSE [ret |-> Token, cache |-> Token, exchange |-> "ok"]

(***************************************************************************)
(* What the remote API answers.                                            *)
(***************************************************************************)
\* scores/recent: newest first, at most RecentLimit entries
RecentWindow(hist) ==
    LET n == IF Len(hist) < RecentLimit THEN Len(hist) ELSE RecentLimit
    IN  [i \in 1..n |-> ApiScore(Len(hist) - i + 1, hist[Len(hist) - i + 1])]

\* scores/best: at most BestLimit entries in any order
BestLists ==
    UNION {[1..n -> {ApiScore(0, p) : p \in PPValues}] : n \in 0..BestLimit}

TimerOutcomes == {"fail", "garbage", "ok"}

NoResp == [recent_ok |-> FALSE, best_ok |-> FALSE, timer |-> "none",
           recent_body |-> <<>>, best_body |-> <<>>]

\* (await recentScoresResponse.json()) as NewUserScore[]
ParseRecent(response) == response.recent_body

\* variant: the best-list is read from the recent-scores response
ParseBest_FromRecent(response) == response.recent_body

\* (await bestScoresResponse.json()) as UserBestScore[]
ParseBest(response) == response.best_body

(***************************************************************************)
(* Rank classification and the novelty filter of `scheduled`.              *)
(***************************************************************************)
\* variant: sorted ascending, (a, b) => a - b
top_100_pp_values_Ascending(best) ==
    LET desc == SortDesc([i \in 1..Len(best) |-> best[i].pp])
    IN  [i \in 1..Len(desc) |-> desc[Len(desc) - i + 1]]

\* best_scores.map(score => score.pp).sort((a, b) => b - a)
top_100_pp_values(best) ==
    SortDesc([i \in 1..Len(best) |-> best[i].pp])

\* score.pp && score.pp >= top_100_pp, where top_100_pp is the last sorted
\* value and is undefined (every comparison false) when there is none
PassesThreshold(pp, values) ==
    /\ pp # NullPP
    /\ pp # 0
    /\ Len(values) > 0
    /\ pp >= values[Len(values)]

last_seen_index(recent, last_seen) ==
    IF HasCreatedAt(last_seen)
    THEN findIndex(recent, last_seen.created_at)
    ELSE -1

\* variant: an unmatched cursor starts one entry short of the oldest
start_index_SkipsOldest(recent, idx) ==
    IF idx = -1 THEN Len(recent) - 2 ELSE idx

\* last_seen_index === -1 ? recent_scores.length - 1 : last_seen_index
start_index(recent, idx) ==
    IF idx = -1 THEN Len(recent) - 1 ELSE idx

\* variant: the entries from position 0 up to i, the newest pushed first
RECURSIVE CollectFrom_NewestFirst(_, _, _)
CollectFrom_NewestFirst(recent, i, values) ==
    IF i < 0 THEN <<>>
    ELSE CollectFrom_NewestFirst(recent, i - 1, values)
         \o (IF PassesThreshold(recent[i + 1].pp, values)
             THEN <<recent[i + 1]>> ELSE <<>>)

\* for (let i = start_index; i >= 0; i--) ... new_scores.push(score)
RECURSIVE CollectFrom(_, _, _)
CollectFrom(recent, i, values) ==
    IF i < 0 THEN <<>>
    ELSE (IF PassesThreshold(recent[i + 1].pp, values)
          THEN <<recent[i + 1]>> ELSE <<>>)
         \o CollectFrom(recent, i - 1, values)

\* variant: the loop runs also when the cursor is the newest entry
NewScores_NoGuard(recent, last_seen, values) ==
    CollectFrom(recent,
                start_index(recent, last_seen_index(recent, last_seen)),
                values)

\* if (last_seen_index !== 0) { ... }
NewScores(recent, last_seen, values) ==
    LET idx == last_seen_index(recent, last_seen)
    IN  IF idx # 0
        THEN CollectFrom(recent, start_index(recent, idx), values)
        ELSE <<>>

\* variant: the cursor is written only while none is stored
CursorDiffers_OnlyWhenEmpty(latest_score, last_seen) ==
    ~HasCreatedAt(last_seen)

\* latest_score.ended_at != last_seen_score?.created_at
CursorDiffers(latest_score, last_seen) ==
    ~HasCreatedAt(last_seen) \/ latest_score.ended_at # last_seen.created_at

\* top_100_pp_values.indexOf(score.pp) + 1
score_rank(values, pp) == indexOf(values, pp) + 1

\* parseInt(await timerValueResponse.text()), or the default of -1
ParseTimer(timer) ==
    IF timer = "ok" THEN TimerBody
    ELSE IF timer = "garbage" THEN NaN
    ELSE NoTimer

\* the body of the POST: the fields of `content` that depend on the score
Message(score, rank, timer, ok) ==
    [ended_at |-> score.ended_at, pp |-> score.pp, rank |-> rank,
     augmented |-> (timer # NoTimer), timer |-> timer, ok |-> ok]

\* variant: the loop goes on after a POST
RECURSIVE AnnounceLoop_NoBreak(_, _, _, _)
AnnounceLoop_NoBreak(scores, values, timer, ok) ==
    IF scores = <<>> THEN <<>>
    ELSE LET rank == score_rank(values, Head(scores).pp)
         IN  IF rank = 0
             THEN AnnounceLoop_NoBreak(Tail(scores), values, timer, ok)
             ELSE <<Message(Head(scores), rank, timer, ok)>>
                  \o AnnounceLoop_NoBreak(Tail(scores), values, timer, ok)

\* variant: nothing is announced unless the timer value was fetched
RECURSIVE AnnounceLoop_TimerGate(_, _, _, _)
AnnounceLoop_TimerGate(scores, values, timer, ok) ==
    IF scores = <<>> \/ timer = NoTimer THEN <<>>
    ELSE LET rank == score_rank(values, Head(scores).pp)
         IN  IF rank = 0
             THEN AnnounceLoop_TimerGate(Tail(scores), values, timer, ok)
             ELSE <<Message(Head(scores), rank, timer, ok)>>

\* variant: a POST answered with a failure passes on to the next candidate
RECURSIVE AnnounceLoop_RetryNext(_, _, _, _)
AnnounceLoop_RetryNext(scores, values, timer, ok) ==
    IF scores = <<>> THEN <<>>
    ELSE LET rank == score_rank(values, Head(scores).pp)
         IN  IF rank = 0
             THEN AnnounceLoop_RetryNext(Tail(scores), values, timer, ok)
             ELSE <<Message(Head(scores), rank, timer, ok)>>
                  \o (IF ok THEN <<>>
                      ELSE AnnounceLoop_RetryNext(Tail(scores), values,
                                                  timer, ok))

\* for (const api_score of new_scores) { ... continue ... fetch ... break }
RECURSIVE AnnounceLoop(_, _, _, _)
AnnounceLoop(scores, values, timer, ok) ==
    IF scores = <<>> THEN <<>>
    ELSE LET rank == score_rank(values, Head(scores).pp)
         IN  IF rank = 0
             THEN AnnounceLoop(Tail(scores), values, timer, ok)
             ELSE <<Message(Head(scores), rank, timer, ok)>>


(***************************************************************************)
(* History kept for the properties.                                        *)
(***************************************************************************)
MaxCount == 2           \* announcedIn counts up to here

NoFetch == [kind |-> "none"]
FetchedLists(recent, best) == [kind |-> "lists", recent |-> recent, best |-> best]

\* the timestamps a sequence of POSTs is about
PostedTimestamps(msgs) == {msgs[i].ended_at : i \in 1..Len(msgs)}

\* the entries of recent that are newer than the cursor (all of them when
\* the cursor matches no entry) and whose value the best-list holds
NewRecordsOf(recent, last_seen, best) ==
    LET k == last_seen_index(recent, last_seen)
    IN  {recent[i].ended_at : i \in
            {j \in 1..Len(recent) :
                /\ (k = -1 \/ j - 1 < k)
                /\ \E b \in 1..Len(best) : best[b].pp = recent[j].pp}}

\* the candidates the announce loop passes over with rank 0: those before
\* the first one it announces, all of them when it announces none
SkippedForRank(scores, values) ==
    {scores[i].ended_at : i \in
        {j \in 1..Len(scores) :
            \A k \in 1..j : score_rank(values, scores[k].pp) = 0}}

\* the newest timestamp among newest and the head of recent
NewestOf(newest, recent) ==
    IF recent # <<>> /\ recent[1].ended_at > newest
    THEN recent[1].ended_at ELSE newest

(***************************************************************************)
(* Initial state: nothing stored but possibly a cursor left unreadable,    *)
(* no score played yet, no invocation running.                             *)
(***************************************************************************)
Init ==
    /\ history = <<>>
    /\ kv_token = NoToken
    /\ kv_last_seen \in {KVNull, KVCorrupt}
    /\ timer_configured \in BOOLEAN
    /\ pc = [r \in Runs |-> "idle"]
    /\ osu_v2_token = [r \in Runs |-> NoToken]
    /\ last_seen_score = [r \in Runs |-> KVNull]
    /\ resp = [r \in Runs |-> NoResp]
    /\ recent_scores = [r \in Runs |-> <<>>]
    /\ best_scores = [r \in Runs |-> <<>>]
    /\ timer_value = [r \in Runs |-> NoTimer]
    /\ new_scores = [r \in Runs |-> <<>>]
    /\ posts = [r \in Runs |-> <<>>]
    /\ outcome = [r \in Runs |-> "none"]
    /\ wrote = [r \in Runs |-> FALSE]
    /\ cursor_at_start = [r \in Runs |-> KVNull]
    /\ exchanged = [r \in Runs |-> "none"]
    /\ token_at_start = [r \in Runs |-> NoToken]
    /\ same_fetch = [r \in Runs |-> FALSE]
    /\ announcedIn = [t \in Timestamps |-> 0]
    /\ newRecords = {}
    /\ prev_fetch = NoFetch
    /\ deferred = {}
    /\ newest_seen = 0
    /\ overlapped = FALSE
    /\ cut_delivering = 0

(***************************************************************************)
(* Environment.                                                            *)
(***************************************************************************)
\* the user finishes a play; its pp may be null
NewScore ==
    /\ Len(history) < MaxHist
    /\ \E p \in PPValues \cup {NullPP} : history' = Append(history, p)
    /\ UNCHANGED <<kv_token, kv_last_seen, timer_configured, pc, osu_v2_token,
                   last_seen_score, resp, recent_scores, best_scores,
                   timer_value, new_scores, posts, outcome, wrote,
                   cursor_at_start, exchanged, token_at_start, same_fetch,
                   announcedIn, newRecords, prev_fetch>>
    /\ UNCHANGED <<deferred, newest_seen, overlapped, cut_delivering>>

\* the store drops the token when its expirationTtl has passed
TokenExpire ==
    /\ kv_token # NoToken
    /\ kv_token' = NoToken
    /\ UNCHANGED <<history, kv_last_seen, timer_configured, pc, osu_v2_token,
                   last_seen_score, resp, recent_scores, best_scores,
                   timer_value, new_scores, posts, outcome, wrote,
                   cursor_at_start, exchanged, token_at_start, same_fetch,
                   announcedIn, newRecords, prev_fetch>>
    /\ UNCHANGED <<deferred, newest_seen, overlapped, cut_delivering>>

(***************************************************************************)
(* scheduled, step by step.                                                *)
(***************************************************************************)
\* the invocation has started and has not ended
Active(r) == pc[r] \notin {"idle", "done"}

\* const osu_v2_token = await get_osu_v2_token(env); if null, return
GetToken(r) ==
    /\ pc[r] = "idle"
    /\ \E exchange_resp \in ExchangeResponses :
          LET t == get_osu_v2_token(kv_token, FALSE, exchange_resp)
          IN  /\ kv_token' = t.cache
              /\ osu_v2_token' = [osu_v2_token EXCEPT ![r] = t.ret]
              /\ exchanged' = [exchanged EXCEPT ![r] = t.exchange]
              /\ token_at_start' = [token_at_start EXCEPT ![r] = kv_token]
              /\ pc' = [pc EXCEPT ![r] =
                           IF t.ret \in {NoToken, Thrown} THEN "done"
                           ELSE "read_cursor"]
              /\ outcome' = [outcome EXCEPT ![r] =
                           IF t.ret = NoToken THEN "no_token"
                           ELSE IF t.ret = Thrown THEN "syntax_error"
                           ELSE "running"]
    /\ cursor_at_start' = [cursor_at_start EXCEPT ![r] = kv_last_seen]
    /\ overlapped' = (overlapped \/ \E q \in Runs \ {r} : Active(q))
    /\ UNCHANGED <<history, kv_last_seen, timer_configured, last_seen_score,
                   resp, recent_scores, best_scores, timer_value, new_scores,
                   posts, wrote, same_fetch, announcedIn, newRecords,
                   prev_fetch>>
    /\ UNCHANGED <<deferred, newest_seen, cut_delivering>>

\* env.LATEST_SCORE.get('last_seen') and JSON.parse
ReadCursor(r) ==
    /\ pc[r] = "read_cursor"
    /\ last_seen_score' = [last_seen_score EXCEPT ![r] =
          ParseLastSeen(kv_last_seen)]
    /\ pc' = [pc EXCEPT ![r] = "fetch"]
    /\ UNCHANGED <<history, kv_token, kv_last_seen, timer_configured,
                   osu_v2_token, resp, recent_scores, best_scores, timer_value,
                   new_scores, posts, outcome, wrote, cursor_at_start,
                   exchanged, token_at_start, same_fetch, announcedIn,
                   newRecords, prev_fetch>>
    /\ UNCHANGED <<deferred, newest_seen, overlapped, cut_delivering>>

\* await Promise.all(fetch_promises): two or three responses arrive
Fetch(r) ==
    /\ pc[r] = "fetch"
    /\ \E recent_ok \in BOOLEAN, best_ok \in BOOLEAN,
          timer \in TimerOutcomes, best \in BestLists :
          /\ resp' = [resp EXCEPT ![r] =
                [recent_ok |-> recent_ok, best_ok |-> best_ok,
                 timer |-> IF timer_configured THEN timer ELSE "undefined",
                 recent_body |-> IF recent_ok THEN RecentWindow(history)
                                 ELSE <<>>,
                 best_body |-> IF best_ok THEN best ELSE <<>>]]
          /\ same_fetch' = [same_fetch EXCEPT ![r] =
                /\ recent_ok /\ best_ok
                /\ prev_fetch = FetchedLists(RecentWindow(history), best)]
    /\ prev_fetch' = NoFetch
    /\ pc' = [pc EXCEPT ![r] = "process"]
    /\ UNCHANGED <<history, kv_token, kv_last_seen, timer_configured,
                   osu_v2_token, last_seen_score, recent_scores, best_scores,
                   timer_value, new_scores, posts, outcome, wrote,
                   cursor_at_start, exchanged, token_at_start, announcedIn,
                   newRecords>>
    /\ UNCHANGED <<deferred, newest_seen, overlapped, cut_delivering>>

\* the checks of the three responses, in the order of the code: what ends
\* the invocation, or "ok" when it goes on
StatusChecks_RecentOnly(response) ==
    IF ~response.recent_ok THEN "recent_failed"
    ELSE IF response.timer = "undefined" THEN "type_error"
    ELSE "ok"

StatusChecks(response) ==
    IF ~response.recent_ok THEN "recent_failed"
    ELSE IF ~response.best_ok THEN "best_failed"
    ELSE IF response.timer = "undefined" THEN "type_error"
    ELSE "ok"                 \* timerValueResponse.ok of undefined throws

\* from the status checks to the put of 'last_seen'
Process(r) ==
    /\ pc[r] = "process"
    /\ IF StatusChecks(resp[r]) # "ok"
       THEN /\ outcome' = [outcome EXCEPT ![r] = StatusChecks(resp[r])]
            /\ pc' = [pc EXCEPT ![r] = "done"]
            /\ UNCHANGED <<kv_last_seen, recent_scores, best_scores,
                           timer_value, new_scores, wrote, newRecords,
                           newest_seen>>
       ELSE LET recent == ParseRecent(resp[r])
                best   == ParseBest(resp[r])
                values == top_100_pp_values(best)
                write  == /\ Len(recent) > 0
                          /\ CursorDiffers(recent[1], last_seen_score[r])
            IN  /\ timer_value' = [timer_value EXCEPT ![r] =
                      ParseTimer(resp[r].timer)]
                /\ recent_scores' = [recent_scores EXCEPT ![r] = recent]
                /\ best_scores' = [best_scores EXCEPT ![r] = best]
                /\ new_scores' = [new_scores EXCEPT ![r] =
                      NewScores(recent, last_seen_score[r], values)]
                /\ kv_last_seen' =
                      IF write THEN score_from_api(recent[1]) ELSE kv_last_seen
                /\ wrote' = [wrote EXCEPT ![r] = write]
                /\ newRecords' = newRecords \cup
                      NewRecordsOf(recent, last_seen_score[r], best)
                /\ newest_seen' = NewestOf(newest_seen, recent)
                /\ pc' = [pc EXCEPT ![r] = "announce"]
                /\ UNCHANGED outcome
    /\ UNCHANGED <<history, kv_token, timer_configured, osu_v2_token,
                   last_seen_score, resp, posts, cursor_at_start, exchanged,
                   token_at_start, same_fetch, announcedIn, prev_fetch>>
    /\ UNCHANGED <<deferred, overlapped, cut_delivering>>

\* the task handed to ctx.waitUntil
Announce(r) ==
    /\ pc[r] = "announce"
    /\ \E ok \in BOOLEAN :
          LET sent == AnnounceLoop(new_scores[r],
                                   top_100_pp_values(best_scores[r]),
                                   timer_value[r], ok)
          IN  /\ posts' = [posts EXCEPT ![r] = sent]
              /\ announcedIn' = [t \in Timestamps |->
                    IF t \in PostedTimestamps(sent) /\ announcedIn[t] < MaxCount
                    THEN announcedIn[t] + 1 ELSE announcedIn[t]]
    /\ deferred' = deferred \cup
          SkippedForRank(new_scores[r], top_100_pp_values(best_scores[r]))
    /\ outcome' = [outcome EXCEPT ![r] = "completed"]
    /\ pc' = [pc EXCEPT ![r] = "done"]
    /\ UNCHANGED <<history, kv_token, kv_last_seen, timer_configured,
                   osu_v2_token, last_seen_score, resp, recent_scores,
                   best_scores, timer_value, new_scores, wrote,
                   cursor_at_start, exchanged, token_at_start, same_fetch,
                   newRecords, prev_fetch>>
    /\ UNCHANGED <<newest_seen, overlapped, cut_delivering>>

\* the invocation is retired; the next trigger starts from fresh locals
Finish(r) ==
    /\ pc[r] = "done"
    /\ prev_fetch' =
          IF resp[r].recent_ok /\ resp[r].best_ok
          THEN FetchedLists(resp[r].recent_body, resp[r].best_body)
          ELSE NoFetch
    /\ pc' = [pc EXCEPT ![r] = "idle"]
    /\ osu_v2_token' = [osu_v2_token EXCEPT ![r] = NoToken]
    /\ last_seen_score' = [last_seen_score EXCEPT ![r] = KVNull]
    /\ resp' = [resp EXCEPT ![r] = NoResp]
    /\ recent_scores' = [recent_scores EXCEPT ![r] = <<>>]
    /\ best_scores' = [best_scores EXCEPT ![r] = <<>>]
    /\ timer_value' = [timer_value EXCEPT ![r] = NoTimer]
    /\ new_scores' = [new_scores EXCEPT ![r] = <<>>]
    /\ posts' = [posts EXCEPT ![r] = <<>>]
    /\ outcome' = [outcome EXCEPT ![r] = "none"]
    /\ wrote' = [wrote EXCEPT ![r] = FALSE]
    /\ cursor_at_start' = [cursor_at_start EXCEPT ![r] = KVNull]
    /\ exchanged' = [exchanged EXCEPT ![r] = "none"]
    /\ token_at_start' = [token_at_start EXCEPT ![r] = NoToken]
    /\ same_fetch' = [same_fetch EXCEPT ![r] = FALSE]
    /\ cut_delivering' = IF outcome[r] = "cut_off" THEN cut_delivering ELSE 0
    /\ UNCHANGED <<history, kv_token, kv_last_seen, timer_configured,
                   announcedIn, newRecords>>
    /\ UNCHANGED <<deferred, newest_seen, overlapped>>

(***************************************************************************)
(* Serialized runs: the trigger starts an invocation only when the         *)
(* previous one is retired, so a single slot is ever active.               *)
(***************************************************************************)
SerialRuns == {1}

Run(r) ==
    \/ GetToken(r)
    \/ ReadCursor(r)
    \/ Fetch(r)
    \/ Process(r)
    \/ Announce(r)
    \/ Finish(r)

Next ==
    \/ NewScore
    \/ TokenExpire
    \/ \E r \in SerialRuns : Run(r)

Spec == Init /\ [][Next]_vars

(***************************************************************************)
(* The host may end an invocation while the task handed to ctx.waitUntil   *)
(* is still running (the limits of the platform, a crash, a redeploy): the *)
(* POST of the score being delivered has been issued or not, and nothing   *)
(* after it runs.                                                          *)
(***************************************************************************)
CutOff(r) ==
    /\ pc[r] = "announce"
    /\ \E issued \in BOOLEAN, ok \in BOOLEAN :
          LET sent == AnnounceLoop(new_scores[r],
                                   top_100_pp_values(best_scores[r]),
                                   timer_value[r], ok)
          IN  /\ posts' = [posts EXCEPT ![r] = IF issued THEN sent ELSE <<>>]
              /\ announcedIn' = [t \in Timestamps |->
                    IF issued /\ t \in PostedTimestamps(sent)
                       /\ announcedIn[t] < MaxCount
                    THEN announcedIn[t] + 1 ELSE announcedIn[t]]
              /\ cut_delivering' =
                    IF sent = <<>> THEN 0 ELSE sent[1].ended_at
    /\ outcome' = [outcome EXCEPT ![r] = "cut_off"]
    /\ pc' = [pc EXCEPT ![r] = "done"]
    /\ UNCHANGED <<history, kv_token, kv_last_seen, timer_configured,
                   osu_v2_token, last_seen_score, resp, recent_scores,
                   best_scores, timer_value, new_scores, wrote,
                   cursor_at_start, exchanged, token_at_start, same_fetch,
                   newRecords, prev_fetch, deferred, newest_seen, overlapped>>

CutNext ==
    \/ Next
    \/ \E r \in SerialRuns : CutOff(r)

CutSpec == Init /\ [][CutNext]_vars

(***************************************************************************)
(* The schedule at its most favourable.  The cron trigger keeps starting   *)
(* invocations and the host runs each one to its end; the token endpoint   *)
(* and the two score requests always answer with success.  Nothing obliges *)
(* the user to play.  Every behaviour of FairSpec is a behaviour of Spec.  *)
(***************************************************************************)
TokenOk(r) == GetToken(r) /\ osu_v2_token'[r] \notin {NoToken, Thrown}

FetchOk(r) == Fetch(r) /\ resp'[r].recent_ok /\ resp'[r].best_ok

\* an invocation all of whose mandatory requests succeed
GoodRun(r) ==
    \/ TokenOk(r)
    \/ ReadCursor(r)
    \/ FetchOk(r)
    \/ Process(r)
    \/ Announce(r)
    \/ Finish(r)

GoodNext ==
    \/ NewScore
    \/ \E r \in SerialRuns : GoodRun(r)

\* the deployment with the timer endpoint configured and an empty store
GoodInit == Init /\ timer_configured /\ kv_last_seen = KVNull

FairSpec ==
    /\ GoodInit
    /\ [][GoodNext]_vars
    /\ \A r \in SerialRuns : WF_vars(GoodRun(r))

(***************************************************************************)
(* Overlapping invocations: nothing in the code keeps the trigger from     *)
(* starting an invocation while another one is between two of its awaits.  *)
(* Two invocations, one per slot, each run once and interleaved step by    *)
(* step; one after the other is one of the interleavings.                  *)
(***************************************************************************)
\* both score requests succeed and the best-list is a full one
FullFetch(r) == FetchOk(r) /\ Len(resp'[r].best_body) = BestLimit

OverlapRun(r) ==
    \/ TokenOk(r)
    \/ ReadCursor(r)
    \/ FullFetch(r)
    \/ Process(r)
    \/ Announce(r)

\* the plays finished while the two invocations run fit the recent-list
FewScores == Len(history) < RecentLimit /\ NewScore

OverlapNext ==
    \/ FewScores
    \/ \E r \in Runs : OverlapRun(r)

OverlapSpec == GoodInit /\ [][OverlapNext]_vars


(***************************************************************************)
(* Vocabulary of the properties, stated without the operators of the       *)
(* pipeline.                                                               *)
(***************************************************************************)
\* the run got past the status checks: its lists and candidates are set
Processed(r) == pc[r] = "announce" \/ (pc[r] = "done" /\ outcome[r] = "completed")

\* the run has ended
Ended(r) == pc[r] = "done"

PPsOf(scores) == {scores[i].pp : i \in 1..Len(scores)}

MinOf(S) == CHOOSE m \in S : \A x \in S : m <= x

\* at or above the smallest value of the best-list
AtThreshold(pp, best) ==
    /\ pp # NullPP
    /\ best # <<>>
    /\ pp >= MinOf(PPsOf(best))

\* at or above the threshold and present in the best-list
Qualifies(pp, best) == AtThreshold(pp, best) /\ pp \in PPsOf(best)

\* position (0 = newest) of the cursor's timestamp in recent, -1 if absent
CursorPosition(recent, last_seen) ==
    IF last_seen.kind = "json"
       /\ \E i \in 1..Len(recent) : recent[i].ended_at = last_seen.created_at
    THEN (CHOOSE i \in 1..Len(recent) :
             recent[i].ended_at = last_seen.created_at) - 1
    ELSE -1

\* positions n-1 down to 0 of recent, oldest first, threshold applied
ExpectedCandidates(recent, n, best) ==
    SelectSeq([i \in 1..n |-> recent[n - i + 1]],
              LAMBDA sc : AtThreshold(sc.pp, best))

(***************************************************************************)
(* C1: across serialized runs over one growing history, no score is        *)
(* announced (a webhook POST issued for it) by more than one run.          *)
(***************************************************************************)
C1_NeverReannounced ==
    \A t \in Timestamps : announcedIn[t] <= 1

(***************************************************************************)
(* C2: every new personal record (an entry of some run's recent-list that  *)
(* is newer than the cursor and whose value that run's best-list holds) is *)
(* announced by some run, also when several arrive between two runs.       *)
(***************************************************************************)
C2_EveryRecordAnnounced ==
    \A t \in Timestamps : (t \in newRecords) ~> (announcedIn[t] >= 1)

(***************************************************************************)
(* C3: idempotence.  A run that fetches the same recent-list and best-list *)
(* as the run before it sends no announcement and does not write the       *)
(* cursor, which is the same after the run as before it.                   *)
(***************************************************************************)
C3_Idempotent ==
    \A r \in Runs :
        (Ended(r) /\ same_fetch[r]) =>
            /\ posts[r] = <<>>
            /\ ~wrote[r]
            /\ kv_last_seen = cursor_at_start[r]

\* a second run over unchanged lists whose newest score would qualify
C3_Witness ==
    \E r \in Runs :
        /\ Ended(r) /\ same_fetch[r] /\ outcome[r] = "completed"
        /\ recent_scores[r] # <<>>
        /\ Qualifies(recent_scores[r][1].pp, best_scores[r])

(***************************************************************************)
(* C4: novelty correctness.  When the cursor's timestamp matches the       *)
(* recent-list entry at position k > 0, the scores considered are exactly  *)
(* the entries at positions k-1 down to 0, oldest first; the entry at      *)
(* position k and every older entry are never considered.                  *)
(***************************************************************************)
C4_StrictlyNewer ==
    \A r \in Runs :
        LET k == CursorPosition(recent_scores[r], last_seen_score[r])
        IN  (Processed(r) /\ k > 0) =>
                new_scores[r] =
                    ExpectedCandidates(recent_scores[r], k, best_scores[r])

(***************************************************************************)
(* C5: catch-up.  When the cursor is empty or its timestamp matches no     *)
(* entry of the recent-list, all K entries are considered, oldest first,   *)
(* each subject only to the threshold (and later to the rank check).       *)
(***************************************************************************)
C5_CatchUp ==
    \A r \in Runs :
        LET recent == recent_scores[r]
        IN  (Processed(r) /\ CursorPosition(recent, last_seen_score[r]) = -1) =>
                new_scores[r] =
                    ExpectedCandidates(recent, Len(recent), best_scores[r])

\* a cursor that scrolled out of a full window, every entry of which passes
C5_Witness ==
    \E r \in Runs :
        /\ Processed(r)
        /\ last_seen_score[r].kind = "json"
        /\ CursorPosition(recent_scores[r], last_seen_score[r]) = -1
        /\ Len(recent_scores[r]) >= 2
        /\ Len(new_scores[r]) = Len(recent_scores[r])


(***************************************************************************)
(* C6: threshold safety.  A score whose value is null or strictly below    *)
(* the smallest value of the fetched best-list is never announced, and     *)
(* nothing is announced when the best-list is empty.                       *)
(***************************************************************************)
C6_ThresholdSafety ==
    \A r \in Runs : \A i \in 1..Len(posts[r]) :
        AtThreshold(posts[r][i].pp, resp[r].best_body)

\* an announcement went out while an older candidate fell short
C6_Witness ==
    \E r \in Runs :
        /\ Len(posts[r]) = 1
        /\ \E j \in 1..Len(recent_scores[r]) :
              /\ recent_scores[r][j].ended_at < posts[r][1].ended_at
              /\ ~AtThreshold(recent_scores[r][j].pp, resp[r].best_body)
              /\ LET k == CursorPosition(recent_scores[r], last_seen_score[r])
                 IN  k = -1 \/ j - 1 < k

(***************************************************************************)
(* C7: rank correctness.  Every announcement carries the 1-based position  *)
(* of the first occurrence of its value in the best-list's values sorted   *)
(* descending, so the rank lies in 1..length of the best-list and a value  *)
(* the best-list lacks is never announced.                                 *)
(***************************************************************************)
C7_RankCorrect ==
    \A r \in Runs : \A i \in 1..Len(posts[r]) :
        LET m    == posts[r][i]
            best == resp[r].best_body
        IN  /\ m.pp \in PPsOf(best)
            /\ m.rank = 1 + Cardinality({b \in 1..Len(best) : best[b].pp > m.pp})
            /\ m.rank >= 1
            /\ m.rank <= Len(best)

\* an announcement of a value that is not the top of the best-list
C7_Witness ==
    \E r \in Runs : Len(posts[r]) = 1 /\ posts[r][1].rank = 2

(***************************************************************************)
(* C8: single announcement.  Every run issues at most one POST; a run      *)
(* with two or more qualifying candidates sends exactly one, whatever the  *)
(* webhook answers.                                                        *)
(***************************************************************************)
QualifyingCandidates(r) ==
    {i \in 1..Len(new_scores[r]) : Qualifies(new_scores[r][i].pp, best_scores[r])}

C8_SingleAnnouncement ==
    \A r \in Runs :
        /\ Len(posts[r]) <= 1
        /\ (Ended(r) /\ Processed(r) /\ Cardinality(QualifyingCandidates(r)) >= 2)
              => Len(posts[r]) = 1

\* two qualifying candidates, one POST, answered with a failure status
C8_Witness ==
    \E r \in Runs :
        /\ Ended(r) /\ Processed(r)
        /\ Cardinality(QualifyingCandidates(r)) >= 2
        /\ Len(posts[r]) = 1
        /\ ~posts[r][1].ok

(***************************************************************************)
(* C9: cursor invariant.  After every run that obtained the token and      *)
(* whose two score fetches succeeded with a non-empty recent-list, the     *)
(* cursor's timestamp is that of recent[0]; the cursor is written only     *)
(* when that timestamp differs from the cursor read at the start.          *)
(***************************************************************************)
C9_CursorIsNewest ==
    \A r \in Runs :
        (/\ Ended(r)
         /\ osu_v2_token[r] # NoToken
         /\ resp[r].recent_ok /\ resp[r].best_ok
         /\ resp[r].recent_body # <<>>)
        => /\ kv_last_seen.kind = "json"
           /\ kv_last_seen.created_at = resp[r].recent_body[1].ended_at
           /\ wrote[r] =>
                 \/ last_seen_score[r].kind # "json"
                 \/ last_seen_score[r].created_at
                        # resp[r].recent_body[1].ended_at

(***************************************************************************)
(* C10: auth failure aborts the run.  With no cached token and a failed    *)
(* credential exchange the run ends without fetching scores, without       *)
(* writing the cursor or the token cache and without an announcement.      *)
(***************************************************************************)
C10_AuthFailureAborts ==
    \A r \in Runs :
        (pc[r] # "idle" /\ exchanged[r] = "failed") =>
            /\ token_at_start[r] = NoToken
            /\ Ended(r)
            /\ resp[r] = NoResp
            /\ ~wrote[r]
            /\ kv_last_seen = cursor_at_start[r]
            /\ kv_token = NoToken
            /\ posts[r] = <<>>

\* the exchange failed while the history held a score nobody had seen yet
C10_Witness ==
    \E r \in Runs :
        /\ Ended(r) /\ exchanged[r] = "failed"
        /\ history # <<>>
        /\ \/ kv_last_seen.kind # "json"
           \/ kv_last_seen.created_at < Len(history)

(***************************************************************************)
(* C11: a run whose recent-scores or best-scores request answered with a   *)
(* failure status ends with the cursor as it was when the run started and  *)
(* without a webhook POST.                                                 *)
(***************************************************************************)
C11_FetchFailureAborts ==
    \A r \in Runs :
        (/\ Ended(r)
         /\ resp[r].timer # "none"
         /\ (~resp[r].recent_ok \/ ~resp[r].best_ok))
        => /\ ~wrote[r]
           /\ kv_last_seen = cursor_at_start[r]
           /\ posts[r] = <<>>

\* the best-scores request failed in a run whose recent-list starts with a
\* score the cursor does not name: going on would have moved the cursor
C11_Witness ==
    \E r \in Runs :
        /\ Ended(r)
        /\ resp[r].recent_ok
        /\ ~resp[r].best_ok
        /\ resp[r].recent_body # <<>>
        /\ CursorDiffers(resp[r].recent_body[1], last_seen_score[r])
        /\ kv_last_seen = cursor_at_start[r]

(***************************************************************************)
(* C12: a run that starts from a cursor value that does not parse, and     *)
(* whose two score requests succeed, does not crash, takes every entry of  *)
(* the recent-list as a candidate (the threshold applied), and ends with   *)
(* the cursor overwritten by recent[0] when the recent-list is non-empty.  *)
(***************************************************************************)
C12_CorruptCursor ==
    \A r \in Runs :
        (/\ Ended(r)
         /\ cursor_at_start[r] = KVCorrupt
         /\ resp[r].recent_ok
         /\ resp[r].best_ok)
        => /\ outcome[r] = "completed"
           /\ new_scores[r] =
                 ExpectedCandidates(resp[r].recent_body,
                                    Len(resp[r].recent_body),
                                    resp[r].best_body)
           /\ resp[r].recent_body # <<>>
                 => kv_last_seen = score_from_api(resp[r].recent_body[1])

(***************************************************************************)
(* C13: in a run where several candidates qualify, the one POST is for the *)
(* qualifying candidate with the newest completion timestamp.              *)
(***************************************************************************)
QualifyingTimestamps(r) ==
    {new_scores[r][i].ended_at : i \in QualifyingCandidates(r)}

SeveralQualify(r) ==
    /\ Ended(r) /\ Processed(r)
    /\ Cardinality(QualifyingTimestamps(r)) >= 2

C13_NewestQualifying ==
    \A r \in Runs :
        SeveralQualify(r)
        => /\ Len(posts[r]) = 1
           /\ \A t \in QualifyingTimestamps(r) : t <= posts[r][1].ended_at

(***************************************************************************)
(* C13, as the code has it: in a run where several candidates qualify, the *)
(* one POST is for the qualifying candidate with the oldest completion     *)
(* timestamp (candidates are pushed oldest first and the loop stops at the *)
(* first one it announces).                                                *)
(***************************************************************************)
C13_OldestQualifying ==
    \A r \in Runs :
        SeveralQualify(r)
        => /\ Len(posts[r]) = 1
           /\ \A t \in QualifyingTimestamps(r) : posts[r][1].ended_at <= t

\* a run with several qualifying candidates whose POST is for one that
\* is older than another of them
C13_Witness ==
    \E r \in Runs :
        /\ SeveralQualify(r)
        /\ Len(posts[r]) = 1
        /\ \E t \in QualifyingTimestamps(r) : posts[r][1].ended_at < t

(***************************************************************************)
(* C14: when the two score requests succeed and the timer request answers  *)
(* with a failure status, or with a body that is not an integer, the run   *)
(* still updates the cursor, still sends the announcement when a candidate *)
(* qualifies, and no message carries the timer augmentation.               *)
(***************************************************************************)
TimerFailed(r) ==
    /\ Ended(r)
    /\ resp[r].recent_ok /\ resp[r].best_ok
    /\ resp[r].timer \in {"fail", "garbage"}

C14_TimerFailureDegrades ==
    \A r \in Runs :
        TimerFailed(r)
        => /\ outcome[r] = "completed"
           /\ resp[r].recent_body # <<>>
                 => kv_last_seen = score_from_api(resp[r].recent_body[1])
           /\ QualifyingCandidates(r) # {} => Len(posts[r]) = 1
           /\ \A i \in 1..Len(posts[r]) : ~posts[r][i].augmented

(***************************************************************************)
(* C16: when the webhook answers the POST of a run with a failure status,  *)
(* the run issues no second POST, and the cursor the run wrote is still    *)
(* the stored one when the run ends.                                       *)
(***************************************************************************)
DeliveryFailed(r) ==
    /\ Ended(r)
    /\ posts[r] # <<>>
    /\ ~posts[r][1].ok

C16_DeliveryFailure ==
    \A r \in Runs :
        DeliveryFailed(r)
        => /\ Len(posts[r]) = 1
           /\ kv_last_seen = score_from_api(recent_scores[r][1])
           /\ wrote[r] \/ kv_last_seen = cursor_at_start[r]

\* the failed POST was for one candidate while another one qualified too,
\* in a run that moved the cursor
C16_Witness ==
    \E r \in Runs :
        /\ DeliveryFailed(r)
        /\ wrote[r]
        /\ kv_last_seen # cursor_at_start[r]
        /\ Cardinality(QualifyingTimestamps(r)) >= 2

(***************************************************************************)
(* C18: the token cache is written only by a successful exchange.  In the  *)
(* step of a run that calls get_osu_v2_token: a cached token is returned   *)
(* with no exchange request and the cache unchanged; an exchange answered  *)
(* with a failure status makes the call return null and leaves the cache   *)
(* unchanged; a successful exchange stores the new token and returns it.   *)
(***************************************************************************)
TokenStep(r) == pc[r] = "idle" /\ pc'[r] # "idle"

C18_TokenCache ==
    [][\A r \in Runs :
          TokenStep(r)
          => /\ kv_token # NoToken
                   => /\ osu_v2_token'[r] = kv_token
                      /\ exchanged'[r] = "none"
                      /\ kv_token' = kv_token
             /\ exchanged'[r] = "failed"
                   => /\ osu_v2_token'[r] = NoToken
                      /\ kv_token' = kv_token
             /\ exchanged'[r] = "ok"
                   => /\ kv_token' = Token
                      /\ osu_v2_token'[r] = Token]_vars

(***************************************************************************)
(* C17: a candidate that a run skipped because the best-list did not hold  *)
(* its value (rank 0) is announced by a later run whose best-list holds    *)
(* that value: when such a run, with the score still in its recent-list,   *)
(* has ended, the score has been announced.                                *)
(***************************************************************************)
C17_DeferredConfirmation ==
    \A r \in Runs :
        (Ended(r) /\ outcome[r] = "completed")
        => \A i \in 1..Len(recent_scores[r]) :
              (/\ recent_scores[r][i].ended_at \in deferred
               /\ recent_scores[r][i].pp \in PPsOf(best_scores[r]))
              => announcedIn[recent_scores[r][i].ended_at] >= 1

(***************************************************************************)
(* C15: the cursor write of a run is complete before its first POST is     *)
(* issued, so whenever a run is about to POST, has POSTed or was cut off   *)
(* while announcing, the stored cursor is already its recent[0]; and the   *)
(* run that follows a cut-off run does not announce the score the cut-off  *)
(* run was delivering.                                                     *)
(***************************************************************************)
Announcing(r) ==
    \/ pc[r] = "announce"
    \/ Ended(r) /\ outcome[r] \in {"completed", "cut_off"}

C15_WriteBeforeAnnounce ==
    \A r \in Runs :
        /\ (Announcing(r) /\ recent_scores[r] # <<>>)
              => kv_last_seen = score_from_api(recent_scores[r][1])
        /\ (Ended(r) /\ outcome[r] = "completed" /\ cut_delivering # 0)
              => cut_delivering \notin PostedTimestamps(posts[r])

(***************************************************************************)
(* C19: when two invocations overlap, the one that fetched the older       *)
(* recent-list can write last, and the stored cursor is then older than    *)
(* the newest recent[0] a run took to the cursor update (a lost update);   *)
(* when the invocations have never overlapped, no such state is reached.   *)
(***************************************************************************)
LostUpdate ==
    /\ kv_last_seen.kind = "json"
    /\ kv_last_seen.created_at < newest_seen

C19_LostUpdateOnlyWhenOverlapping ==
    LostUpdate => overlapped

\* both invocations have ended, and the cursor is the recent[0] of the one
\* whose recent-list was the older
C19_Witness ==
    /\ LostUpdate
    /\ overlapped
    /\ \A r \in Runs : Ended(r) /\ outcome[r] = "completed"
    /\ \E r \in Runs :
          /\ wrote[r]
          /\ kv_last_seen = score_from_api(recent_scores[r][1])
          /\ \E q \in Runs \ {r} :
                recent_scores[q][1].ended_at > recent_scores[r][1].ended_at

(***************************************************************************)
(* C20: timer noninterference.  Two runs that read the same cursor, hold   *)
(* the same token and fetch the same recent-list and best-list, whatever   *)
(* the timer request of each answers, announce the same score with the     *)
(* same rank and leave the same cursor.                                    *)
(***************************************************************************)
\* what a run announces: the score and its rank, message by message
Announced(r) ==
    [i \in 1..Len(posts[r]) |-> <<posts[r][i].ended_at, posts[r][i].rank>>]

\* the cursor a run leaves: the one it wrote, else the one it read
CursorAfter(r) ==
    IF wrote[r] THEN score_from_api(recent_scores[r][1])
    ELSE last_seen_score[r]

SameInputs(r, q) ==
    /\ Ended(r) /\ outcome[r] = "completed"
    /\ Ended(q) /\ outcome[q] = "completed"
    /\ last_seen_score[r] = last_seen_score[q]
    /\ osu_v2_token[r] = osu_v2_token[q]
    /\ resp[r].recent_body = resp[q].recent_body
    /\ resp[r].best_body = resp[q].best_body

C20_TimerNoninterference ==
    \A r \in Runs, q \in Runs :
        SameInputs(r, q)
        => /\ Announced(r) = Announced(q)
           /\ wrote[r] = wrote[q]
           /\ CursorAfter(r) = CursorAfter(q)

\* one run got the timer value, the other did not; both moved the cursor
\* and announced a score
C20_Witness ==
    \E r \in Runs, q \in Runs :
        /\ SameInputs(r, q)
        /\ resp[r].timer = "ok"
        /\ resp[q].timer \in {"fail", "garbage"}
        /\ posts[r] # <<>>
        /\ posts[r][1].augmented # posts[q][1].augmented
        /\ wrote[r]

(***************************************************************************)
(* C21: a run of a deployment without the timer endpoint, whose two score  *)
(* requests succeed, completes without an uncaught error, leaves the       *)
(* cursor at recent[0] when the recent-list is non-empty, and announces    *)
(* the first qualifying candidate, when there is one, with no timer        *)
(* augmentation.                                                           *)
(***************************************************************************)
NoTimerEndpoint(r) ==
    /\ Ended(r)
    /\ ~timer_configured
    /\ resp[r].recent_ok /\ resp[r].best_ok

C21_RunWithoutTimer ==
    \A r \in Runs :
        NoTimerEndpoint(r)
        => /\ outcome[r] = "completed"
           /\ resp[r].recent_body # <<>>
                 => kv_last_seen = score_from_api(resp[r].recent_body[1])
           /\ QualifyingCandidates(r) # {}
                 => /\ Len(posts[r]) = 1
                    /\ \A t \in QualifyingTimestamps(r) :
                          posts[r][1].ended_at <= t
           /\ \A i \in 1..Len(posts[r]) : ~posts[r][i].augmented

(***************************************************************************)
(* C22: over serialized runs on one growing history, the scores announced  *)
(* have strictly increasing completion timestamps in the order of the runs *)
(* that announced them: when a run has POSTed a score, no other run has    *)
(* announced that score or a newer one.                                    *)
(***************************************************************************)
C22_AnnouncementOrder ==
    \A r \in Runs :
        (Ended(r) /\ posts[r] # <<>>)
        => /\ announcedIn[posts[r][1].ended_at] = 1
           /\ \A t \in Timestamps :
                 t > posts[r][1].ended_at => announcedIn[t] = 0

====
